---------------------------- MODULE Spec2Model ----------------------------
(***************************************************************************)
(* A model of lightweight-feature-flags: the stable hash (hash.js), the    *)
(* in-memory flag store (InMemoryFlagStore) and the evaluation client      *)
(* (FeatureFlagClient: evaluate, isEnabled, getVariant and its private     *)
(* helpers).                                                               *)
(*                                                                         *)
(* JavaScript values are records tagged by t.  A JavaScript string that is *)
(* hashed is the sequence of its UTF-16 code units.                        *)
(***************************************************************************)
EXTENDS Integers, Sequences, FiniteSets, TLC

VARIABLES
  universe,   \* which bounded input sets the callers draw from (fixed by Init)
  seed,       \* FeatureFlagClient.seed
  flags,      \* InMemoryFlagStore._flags: the own properties, key -> value
  proto,      \* InMemoryFlagStore._flags: its [[Prototype]]
  call,       \* the last call made and what it returned
  defined,    \* history: per key, the definition seeded or upserted and not deleted since
  firstEval   \* history: the first evaluate() call that found a flag definition

vars == <<universe, seed, flags, proto, call, defined, firstEval>>

-----------------------------------------------------------------------------
(* JavaScript values *)

Undefined == [t |-> "undefined"]
Null      == [t |-> "null"]
NaN       == [t |-> "NaN"]
Num(n)    == [t |-> "number", v |-> n]
Str(s)    == [t |-> "string", v |-> s]
Arr(a)    == [t |-> "array", v |-> a]
\* A function object inherited from Object.prototype, e.g. toString
BuiltinFunction(name) == [t |-> "function", v |-> name]
\* The object Object.prototype itself
ObjectPrototype == [t |-> "object", v |-> "Object.prototype"]

\* typeof x
TypeOf(x) ==
  CASE x.t = "undefined" -> "undefined"
    [] x.t \in {"number", "NaN"} -> "number"
    [] x.t = "string" -> "string"
    [] x.t = "function" -> "function"
    [] OTHER -> "object"

\* x === y on primitives
StrictEquals(x, y) == x.t # "NaN" /\ x = y

\* SameValueZero, the comparison of Array.prototype.includes
SameValueZero(x, y) == x = y

\* a.includes(x)
Includes(a, x) == \E i \in 1..Len(a) : SameValueZero(a[i], x)

\* !!x
Truthy(x) ==
  CASE x.t \in {"undefined", "null", "NaN"} -> FALSE
    [] x.t = "number" -> x.v # 0
    [] x.t = "string" -> x.v # ""
    [] OTHER -> TRUE

-----------------------------------------------------------------------------
(* Strings as UTF-16 code units *)

\* "feature-flags-default-seed"
DefaultSeed == "feature-flags-default-seed"

\* "userId"
DefaultRolloutAttribute == "userId"

\* str.charCodeAt(i) for i = 0 .. str.length-1, for the strings of the model
CharCodes(s) ==
  CASE s = "" -> <<>>
    [] s = "s" -> <<115>>
    [] s = "a" -> <<97>>
    [] s = "b" -> <<98>>
    [] s = "1" -> <<49>>
    [] s = "2" -> <<50>>
    [] s = "x" -> <<120>>
    [] s = "toString" -> <<116, 111, 83, 116, 114, 105, 110, 103>>
    [] s = "__proto__" -> <<95, 95, 112, 114, 111, 116, 111, 95, 95>>
    [] s = ":" -> <<58>>
    [] s = ":variant:" -> <<58, 118, 97, 114, 105, 97, 110, 116, 58>>
    [] s = "NaN" -> <<78, 97, 78>>
    [] s = "feature-flags-default-seed" ->
         <<102, 101, 97, 116, 117, 114, 101, 45, 102, 108, 97, 103, 115, 45,
           100, 101, 102, 97, 117, 108, 116, 45, 115, 101, 101, 100>>

\* The decimal digits of a natural number, as code units
RECURSIVE DigitCodes(_)
DigitCodes(n) ==
  IF n < 10 THEN <<48 + n>> ELSE Append(DigitCodes(n \div 10), 48 + (n % 10))

\* String(x) for a primitive x
ToStringCodes(x) ==
  CASE x.t = "string" -> CharCodes(x.v)
    [] x.t = "number" -> IF x.v < 0 THEN <<45>> \o DigitCodes(-x.v) ELSE DigitCodes(x.v)
    [] x.t = "NaN" -> CharCodes("NaN")
    [] x.t = "undefined" -> <<117, 110, 100, 101, 102, 105, 110, 101, 100>>
    [] x.t = "null" -> <<110, 117, 108, 108>>

-----------------------------------------------------------------------------
(* hash.js *)

\* The 32-bit running hash is kept as two 16-bit halves <<high, low>>.
FnvOffsetBasis == <<33052, 40389>>     \* 2166136261 = 33052 * 2^16 + 40389

\* 16777619 = 2^24 + 403
FnvPrimeLow == 403

\* a ^ b on non-negative integers
RECURSIVE BitXor(_, _)
BitXor(a, b) ==
  IF b = 0 THEN a
  ELSE IF a = 0 THEN b
  ELSE (((a % 2) + (b % 2)) % 2) + 2 * BitXor(a \div 2, b \div 2)

\* Math.imul(h, 16777619) >>> 0: the product modulo 2^32
Imul(h) ==
  LET p == h[2] * FnvPrimeLow
  IN <<(h[1] * FnvPrimeLow + (p \div 65536) + (h[2] % 256) * 256) % 65536,
       p % 65536>>

\* One turn of the loop: hash ^= code; hash = Math.imul(hash, 16777619) >>> 0
HashStep(h, code) == Imul(<<h[1], BitXor(h[2], code)>>)

\* The loop over the code units, from the i-th on.  The test of next[1], which
\* always holds, has TLC compute the running hash before it goes on.
RECURSIVE HashLoop(_, _, _)
HashLoop(h, codes, i) ==
  IF i > Len(codes) THEN h
  ELSE LET next == HashStep(h, codes[i])
       IN IF next[1] >= 0 THEN HashLoop(next, codes, i + 1) ELSE next

\* hash % max for the 32-bit hash and a non-zero max: the sign of JavaScript's
\* remainder is the dividend's, which is never negative here
Remainder(h, max) ==
  LET m == IF max < 0 THEN -max ELSE max
  IN (((h[1] % m) * (65536 % m)) + (h[2] % m)) % m

\* hashStringToInt(str, max): a number, or NaN when max is 0; it has no throw
HashStringToInt(codes, max) ==
  LET hash == HashLoop(FnvOffsetBasis, codes, 1)
  IN IF max = 0 THEN [threw |-> FALSE, value |-> NaN]
     ELSE [threw |-> FALSE, value |-> Num(Remainder(hash, max))]

-----------------------------------------------------------------------------
(* InMemoryFlagStore: this._flags is a plain object used as a map *)

\* No own property under the key
Absent == [t |-> "absent"]

\* The members a plain object inherits from Object.prototype, among the keys
\* of the model
ObjectPrototypeMembers == {"toString"}

\* A flag definition, a plain object
FlagConfig(enabled, conditions, rollout, variants) ==
  [t |-> "flag", enabled |-> enabled, conditions |-> conditions,
   rollout |-> rollout, variants |-> variants]

\* this._flags[key]: the own property, else what the prototype chain gives.
\* "__proto__" is never an own property here: it is Object.prototype's accessor,
\* which reads the object's [[Prototype]].
GetProperty(own, pr, key) ==
  IF key # "__proto__" /\ own[key] # Absent THEN own[key]
  ELSE IF key = "__proto__" THEN pr
  ELSE IF key \in ObjectPrototypeMembers THEN BuiltinFunction(key)
  ELSE Undefined

\* getFlag(key)
GetFlag(own, pr, key) == GetProperty(own, pr, key)

\* { ...this._flags }: the own enumerable properties
GetAllFlags(own) == own

\* this._flags[key] = config, the own properties afterwards
SetOwn(own, key, config) ==
  IF key = "__proto__" THEN own ELSE [own EXCEPT ![key] = config]

\* this._flags[key] = config, the [[Prototype]] afterwards: assigning an object
\* to "__proto__" replaces the prototype
SetProto(pr, key, config) ==
  IF key = "__proto__" /\ TypeOf(config) = "object" /\ config # Null THEN config
  ELSE pr

\* delete this._flags[key], the own properties afterwards
DeleteOwn(own, key) ==
  IF key = "__proto__" THEN own ELSE [own EXCEPT ![key] = Absent]

-----------------------------------------------------------------------------
(* FeatureFlagClient *)

\* What a function returned, or that it threw (a TypeError)
Returned(value) == [threw |-> FALSE, value |-> value]
Threw == [threw |-> TRUE, value |-> Undefined]

\* context[attribute]
ContextGet(context, attribute) ==
  IF attribute \in DOMAIN context THEN context[attribute] ELSE Undefined

\* x.name for one entry x of flag.conditions or flag.variants: a property of an
\* object, undefined on another primitive; on null or undefined it throws, which
\* the callers test with IsNullish before reading
IsNullish(x) == x.t \in {"undefined", "null"}

\* String(context[attr] ?? "")
Identifier(context, attr) ==
  LET x == ContextGet(context, attr)
  IN IF IsNullish(x) THEN <<>> ELSE ToStringCodes(x)

\* A bug: not_in fails, as in does, when the expected value is not an array
ConditionPassesStrictNotIn(cond, context) ==
  LET isObject == cond.t = "condition"
      attribute == IF isObject THEN cond.attribute ELSE "undefined"
      operator == IF isObject THEN cond.operator ELSE "undefined"
      expected == IF isObject THEN cond.value ELSE Undefined
      actual == ContextGet(context, attribute)
  IN CASE operator = "eq" -> StrictEquals(actual, expected)
       [] operator = "neq" -> ~StrictEquals(actual, expected)
       [] operator = "in" -> expected.t = "array" /\ Includes(expected.v, actual)
       [] operator = "not_in" -> expected.t = "array" /\ ~Includes(expected.v, actual)
       [] OTHER -> FALSE

\* One turn of the loop of _evaluateConditions: TRUE when the condition lets the
\* loop go on
ConditionPasses(cond, context) ==
  LET isObject == cond.t = "condition"
      attribute == IF isObject THEN cond.attribute ELSE "undefined"
      operator == IF isObject THEN cond.operator ELSE "undefined"
      expected == IF isObject THEN cond.value ELSE Undefined
      actual == ContextGet(context, attribute)
  IN CASE operator = "eq" -> StrictEquals(actual, expected)
       [] operator = "neq" -> ~StrictEquals(actual, expected)
       [] operator = "in" -> expected.t = "array" /\ Includes(expected.v, actual)
       [] operator = "not_in" -> ~(expected.t = "array" /\ Includes(expected.v, actual))
       [] OTHER -> FALSE

\* _evaluateConditions(conditions, context), from the i-th condition on
RECURSIVE EvaluateConditionsFrom(_, _, _)
EvaluateConditionsFrom(conditions, context, i) ==
  IF i > Len(conditions) THEN Returned(TRUE)
  ELSE IF IsNullish(conditions[i]) THEN Threw
  ELSE IF ~ConditionPasses(conditions[i], context) THEN Returned(FALSE)
  ELSE EvaluateConditionsFrom(conditions, context, i + 1)

\* _evaluateConditions(conditions, context)
EvaluateConditions(conditions, context) ==
  EvaluateConditionsFrom(conditions, context, 1)

\* _computeBucket(key, identifier)
ComputeBucket(sd, key, identifier) ==
  HashStringToInt(CharCodes(sd) \o CharCodes(":") \o CharCodes(key)
                    \o CharCodes(":") \o identifier, 100).value

\* A bug: min and max swapped, Math.min(0, Math.max(100, percentage))
ClampPercentageSwapped(percentage) ==
  IF percentage.t = "NaN" THEN NaN ELSE Num(0)

\* Math.max(0, Math.min(100, percentage))
ClampPercentage(percentage) ==
  IF percentage.t = "NaN" THEN NaN
  ELSE IF percentage.v > 100 THEN Num(100)
  ELSE IF percentage.v < 0 THEN Num(0)
  ELSE percentage

\* A bug: the variant is bucketed by the default attribute whatever the rollout names
RolloutAttributeDefaultOnly(rollout) == DefaultRolloutAttribute

\* flag.rollout.attribute || this.defaultRolloutAttribute, of a truthy rollout;
\* (flag.rollout && flag.rollout.attribute) || this.defaultRolloutAttribute
RolloutAttribute(rollout) ==
  IF rollout.t = "rollout" /\ Truthy(rollout.attribute) THEN rollout.attribute.v
  ELSE DefaultRolloutAttribute

\* A bug: the comparison of the bucket with the percentage inverted
InRolloutInverted(bucket, percentage) == bucket >= percentage

\* The subject is in the rollout: not (bucket >= percentage)
InRollout(bucket, percentage) == ~(bucket >= percentage)

\* The rollout step of evaluate: TRUE when evaluate goes on to the variants
PassesRollout(sd, key, flag, context) ==
  LET rollout == flag.rollout
  IN IF Truthy(rollout) /\ rollout.t = "rollout"
        /\ TypeOf(rollout.percentage) = "number"
     THEN LET percentage == ClampPercentage(rollout.percentage)
          IN IF percentage = Num(0) THEN FALSE
             ELSE IF percentage.t = "number" /\ percentage.v < 100
             THEN LET attr == RolloutAttribute(rollout)
                      identifier == Identifier(context, attr)
                      bucket == ComputeBucket(sd, key, identifier)
                  IN InRollout(bucket.v, percentage.v)
             ELSE TRUE
     ELSE TRUE

\* The position of a property name that is an array index, -1 for another name
ArrayIndexOf(name) ==
  CASE name = "0" -> 0
    [] name = "1" -> 1
    [] name = "2" -> 2
    [] name = "3" -> 3
    [] OTHER -> -1

\* The entries whose names are array indices, in ascending order of the index
RECURSIVE IndexEntriesFrom(_, _)
IndexEntriesFrom(entries, n) ==
  IF \A i \in 1..Len(entries) : ArrayIndexOf(entries[i].name) < n THEN <<>>
  ELSE SelectSeq(entries, LAMBDA e : ArrayIndexOf(e.name) = n)
         \o IndexEntriesFrom(entries, n + 1)

\* Object.entries(variants) of an object whose properties were created in the
\* order of the sequence: the array-index names first, ascending, then the other
\* names in creation order
ObjectEntries(entries) ==
  IndexEntriesFrom(entries, 0)
    \o SelectSeq(entries, LAMBDA e : ArrayIndexOf(e.name) = -1)

\* typeof cfg.weight === "number" ? cfg.weight : 0, then Math.max(0, w), for a
\* cfg that is not null
VariantWeight(cfg) ==
  IF cfg.t = "variant" /\ cfg.weight.t = "number" /\ cfg.weight.v > 0
  THEN cfg.weight.v
  ELSE 0

\* entries.reduce(...): the total weight of the entries
RECURSIVE TotalWeightFrom(_, _)
TotalWeightFrom(entries, i) ==
  IF i > Len(entries) THEN 0
  ELSE VariantWeight(entries[i].cfg) + TotalWeightFrom(entries, i + 1)

\* The loop of _selectVariant from the i-th entry on; the fallback after it
RECURSIVE WalkVariants(_, _, _, _)
WalkVariants(entries, bucket, cumulative, i) ==
  IF i > Len(entries) THEN Str(entries[Len(entries)].name)
  ELSE LET c == cumulative + VariantWeight(entries[i].cfg)
       IN IF bucket < c THEN Str(entries[i].name)
          ELSE WalkVariants(entries, bucket, c, i + 1)

\* _selectVariant(key, flag, context)
SelectVariant(sd, key, flag, context) ==
  LET variants == flag.variants
  IN IF ~Truthy(variants) \/ TypeOf(variants) # "object" THEN Returned(Null)
     ELSE LET entries == ObjectEntries(variants.v)
          IN IF Len(entries) = 0 THEN Returned(Null)
             ELSE IF \E i \in 1..Len(entries) : IsNullish(entries[i].cfg) THEN Threw
             ELSE LET totalWeight == TotalWeightFrom(entries, 1)
                  IN IF totalWeight <= 0 THEN Returned(Null)
                     ELSE LET attr == RolloutAttribute(flag.rollout)
                              identifier == Identifier(context, attr)
                              bucket == HashStringToInt(
                                          CharCodes(sd) \o CharCodes(":variant:")
                                            \o CharCodes(key) \o CharCodes(":")
                                            \o identifier,
                                          totalWeight).value
                          IN Returned(WalkVariants(entries, bucket.v, 0, 1))

\* What evaluate returns: { enabled, variant, flag? }, or that it threw
EvaluationResult(enabled, variant, hasFlag, flag) ==
  [threw |-> FALSE, enabled |-> enabled, variant |-> variant,
   hasFlag |-> hasFlag, flag |-> flag]
EvaluationThrew ==
  [threw |-> TRUE, enabled |-> FALSE, variant |-> Null,
   hasFlag |-> FALSE, flag |-> Undefined]

\* A bug: the master switch is not looked at
FlagEnabledAlways(flag) == flag.t = "flag"

\* flag.enabled is truthy; a value that is no definition has no enabled property
FlagEnabled(flag) == flag.t = "flag" /\ flag.enabled

\* evaluate(key, context) on the store <<own, pr>>
Evaluate(sd, own, pr, key, context) ==
  LET flag == GetFlag(own, pr, key)
      disabled == EvaluationResult(FALSE, Null, TRUE, flag)
  IN IF ~Truthy(flag) THEN EvaluationResult(FALSE, Null, FALSE, Undefined)
     ELSE IF ~FlagEnabled(flag) THEN disabled
     ELSE LET conditions == flag.conditions
              passes == IF conditions.t = "array" /\ Len(conditions.v) > 0
                        THEN EvaluateConditions(conditions.v, context)
                        ELSE Returned(TRUE)
          IN IF passes.threw THEN EvaluationThrew
             ELSE IF ~passes.value THEN disabled
             ELSE IF ~PassesRollout(sd, key, flag, context) THEN disabled
             ELSE LET variant == SelectVariant(sd, key, flag, context)
                  IN IF variant.threw THEN EvaluationThrew
                     ELSE EvaluationResult(TRUE, variant.value, TRUE, flag)

-----------------------------------------------------------------------------
(* Bounds and the input sets of each universe *)

MaxId == 3          \* identifiers are the numbers 0 .. MaxId
MaxWeight == 2      \* variant weights are -1 .. MaxWeight
MaxVariants == 2    \* a variants mapping has at most this many entries
MaxConds == 2       \* a condition list has at most this many conditions
MaxMax == 4         \* hashStringToInt is called with max in -MaxMax .. MaxMax
MaxStrLen == 2      \* and with strings of at most this many code units

Universes ==
  {"store", "shape", "rollout", "identifier", "conditions", "variants"}

\* All sequences over S of length at most n
RECURSIVE SeqsUpTo(_, _)
SeqsUpTo(S, n) ==
  IF n = 0 THEN {<<>>}
  ELSE LET shorter == SeqsUpTo(S, n - 1)
       IN shorter \cup {Append(q, x) : q \in shorter, x \in S}

Condition(attribute, operator, value) ==
  [t |-> "condition", attribute |-> attribute, operator |-> operator,
   value |-> value]
Rollout(percentage, attribute) ==
  [t |-> "rollout", percentage |-> percentage, attribute |-> attribute]
Variants(entries) == [t |-> "variants", v |-> entries]
Variant(name, weight) ==
  [name |-> name, cfg |-> [t |-> "variant", weight |-> weight]]

PlanIsPro == Arr(<<Condition("plan", "eq", Str("pro"))>>)
TwoVariants == Variants(<<Variant("x", Num(1)), Variant("y", Num(1))>>)

\* The shapes a definition's conditions, rollout and variants fields take in
\* the "shape" universe, the malformed ones among them
ConditionsShapes ==
  {Undefined, Str("x"), Arr(<<>>), Arr(<<Null>>), Arr(<<Num(1)>>), PlanIsPro}
RolloutShapes ==
  {Undefined, Null, Str("x"), Rollout(Str("1"), Undefined), Rollout(NaN, Undefined),
   Rollout(Num(0), Undefined), Rollout(Num(50), Str("orgId"))}
VariantsShapes ==
  {Undefined, Str("x"), Variants(<<>>), Variants(<<[name |-> "x", cfg |-> Null]>>),
   Variants(<<[name |-> "x", cfg |-> Num(1)]>>),
   Variants(<<Variant("x", Str("1"))>>), TwoVariants}

Percentages == {-1, 0, 1, 25, 50, 75, 99, 100, 101}

ConditionOperators == {"eq", "neq", "in", "not_in", "gt"}
ConditionValues == {Str("pro"), NaN, Undefined, Arr(<<Str("pro"), NaN>>)}
Conditions ==
  {Condition("plan", op, value) : op \in ConditionOperators, value \in ConditionValues}

VariantNames == {"x", "y", "1"}
Weights == {Num(w) : w \in -1..MaxWeight} \cup {Str("1")}
VariantEntries ==
  {q \in SeqsUpTo({Variant(n, w) : n \in VariantNames, w \in Weights}, MaxVariants) :
     \A i, j \in 1..Len(q) : q[i].name = q[j].name => i = j}

\* The definitions a store is seeded with at construction
InitialConfigs(u) ==
  CASE u = "store" ->
         {FlagConfig(TRUE, Undefined, Undefined, Undefined)}
    [] u = "shape" ->
         {FlagConfig(e, c, r, v) : e \in BOOLEAN, c \in ConditionsShapes,
                                   r \in RolloutShapes, v \in VariantsShapes}
    [] u = "rollout" ->
         {FlagConfig(TRUE, Undefined, Rollout(Num(p), Undefined), Undefined) :
            p \in Percentages}
         \cup {FlagConfig(TRUE, PlanIsPro, Rollout(Num(p), Undefined), Undefined) :
                 p \in {0, 100}}
         \cup {FlagConfig(TRUE, c, Undefined, Undefined) : c \in {Undefined, PlanIsPro}}
    [] u = "identifier" ->
         {FlagConfig(TRUE, PlanIsPro, Rollout(Num(50), Undefined), TwoVariants),
          FlagConfig(TRUE, Undefined, Rollout(Num(50), Str("orgId")), TwoVariants)}
    [] u = "conditions" ->
         {FlagConfig(TRUE, Arr(q), Undefined, Undefined) :
            q \in SeqsUpTo(Conditions, MaxConds)}
    [] u = "variants" ->
         {FlagConfig(TRUE, Undefined, Undefined, Variants(q)) : q \in VariantEntries}

\* The definitions upsertFlag is called with
UpsertConfigs(u) ==
  CASE u = "store" ->
         {FlagConfig(TRUE, Undefined, Undefined, Undefined),
          FlagConfig(FALSE, Undefined, Undefined, Undefined)}
    [] u \in {"rollout", "identifier"} -> InitialConfigs(u)
    [] OTHER -> {FlagConfig(FALSE, Undefined, Undefined, TwoVariants)}

Keys(u) ==
  CASE u = "store" -> {"a", "toString", "__proto__"}
    [] u = "identifier" -> {"a", "b"}
    [] OTHER -> {"a"}

\* The keys a store is seeded under
SeededKeys(u) ==
  CASE u = "identifier" -> {"a", "b"}
    [] OTHER -> {"a"}

Seeds(u) == IF u \in {"store", "shape"} THEN {Undefined} ELSE {Str("s")}

Contexts(u) ==
  CASE u \in {"store", "shape"} ->
         {[userId |-> Num(1), plan |-> Str("pro")], [plan |-> Str("free")]}
    [] u = "rollout" ->
         {[userId |-> id, plan |-> Str(p)] :
            id \in {Num(n) : n \in 0..MaxId} \cup {Undefined}, p \in {"pro", "free"}}
    [] u = "identifier" ->
         {[userId |-> Num(1), orgId |-> Num(1), plan |-> Str("pro"), country |-> Undefined],
          [userId |-> Str("1"), orgId |-> Num(1), plan |-> Str("pro"), country |-> Str("x")],
          [userId |-> Undefined, orgId |-> Num(1), plan |-> Str("pro"), country |-> Undefined],
          [userId |-> Null, orgId |-> Str("1"), plan |-> Str("pro"), country |-> Str("x")],
          [userId |-> Str(""), orgId |-> Num(2), plan |-> Str("pro"), country |-> Undefined],
          [userId |-> Num(2), orgId |-> Str("1"), plan |-> Str("pro"), country |-> Undefined],
          [userId |-> Num(1), orgId |-> Num(2), plan |-> Str("free"), country |-> Undefined],
          [userId |-> Num(2), orgId |-> Str("2"), plan |-> Str("pro"), country |-> Str("x")]}
    [] u = "conditions" ->
         {[plan |-> x] : x \in {Undefined, Str("pro"), Str("free"), NaN}}
    [] u = "variants" ->
         {[userId |-> Num(n)] : n \in 0..MaxId}

\* The contexts isEnabled and getVariant are called with
SugarContexts(u) == {CHOOSE c \in Contexts(u) : TRUE}

\* The arguments hashStringToInt is called with
HashInputs(u) ==
  IF u = "store"
  THEN SeqsUpTo({97, 98}, MaxStrLen) \X (-MaxMax..MaxMax)
  ELSE {<<CharCodes("a"), 100>>}

-----------------------------------------------------------------------------
(* The state machine *)

None == [t |-> "none"]

\* The universes whose properties relate two evaluate calls: only there is the
\* first one remembered
RelatingUniverses == {"rollout", "identifier"}

Call(op, key, arg, result) == [op |-> op, key |-> key, arg |-> arg, result |-> result]

\* new InMemoryFlagStore({ initialFlags }), then new FeatureFlagClient({ store, seed })
InitIn(u) ==
  /\ u \in Universes
  /\ universe = u
  /\ \E sd \in Seeds(u) : seed = IF Truthy(sd) THEN sd.v ELSE DefaultSeed
  /\ \E initialFlags \in [SeededKeys(u) -> InitialConfigs(u) \cup {Absent}] :
       /\ flags = [k \in Keys(u) |->
                     IF k \in SeededKeys(u) THEN initialFlags[k] ELSE Absent]
       /\ defined = flags
  /\ proto = ObjectPrototype
  /\ call = Call("new", "", <<>>, Undefined)
  /\ firstEval = None

\* store.upsertFlag(key, config)
UpsertFlag(key, config) ==
  /\ flags' = SetOwn(flags, key, config)
  /\ proto' = SetProto(proto, key, config)
  /\ defined' = [defined EXCEPT ![key] = config]
  /\ call' = Call("upsertFlag", key, config, Undefined)
  /\ UNCHANGED <<universe, seed, firstEval>>

\* store.deleteFlag(key)
DeleteFlag(key) ==
  /\ flags' = DeleteOwn(flags, key)
  /\ defined' = [defined EXCEPT ![key] = Absent]
  /\ call' = Call("deleteFlag", key, <<>>, Undefined)
  /\ UNCHANGED <<universe, seed, proto, firstEval>>

\* store.getFlag(key)
CallGetFlag(key) ==
  /\ call' = Call("getFlag", key, <<>>, GetFlag(flags, proto, key))
  /\ UNCHANGED <<universe, seed, flags, proto, defined, firstEval>>

\* store.getAllFlags()
CallGetAllFlags ==
  /\ call' = Call("getAllFlags", "", <<>>, GetAllFlags(flags))
  /\ UNCHANGED <<universe, seed, flags, proto, defined, firstEval>>

\* client.evaluate(key, context)
CallEvaluate(key, context) ==
  LET result == Evaluate(seed, flags, proto, key, context)
  IN /\ call' = Call("evaluate", key, context, result)
     /\ firstEval' =
          IF /\ universe \in RelatingUniverses
             /\ firstEval = None
             /\ key = "a"
             /\ result.hasFlag
          THEN [key |-> key, context |-> context, result |-> result]
          ELSE firstEval
     /\ UNCHANGED <<universe, seed, flags, proto, defined>>

\* client.isEnabled(key, context)
CallIsEnabled(key, context) ==
  LET result == Evaluate(seed, flags, proto, key, context)
  IN /\ call' = Call("isEnabled", key, context,
                     [threw |-> result.threw, value |-> result.enabled])
     /\ UNCHANGED <<universe, seed, flags, proto, defined, firstEval>>

\* client.getVariant(key, context)
CallGetVariant(key, context) ==
  LET result == Evaluate(seed, flags, proto, key, context)
  IN /\ call' = Call("getVariant", key, context,
                     [threw |-> result.threw, value |-> result.variant])
     /\ UNCHANGED <<universe, seed, flags, proto, defined, firstEval>>

\* hashStringToInt(str, max)
CallHashStringToInt(codes, max) ==
  /\ call' = Call("hashStringToInt", "", <<codes, max>>, HashStringToInt(codes, max))
  /\ UNCHANGED <<universe, seed, flags, proto, defined, firstEval>>

Next ==
  \/ \E key \in Keys(universe), config \in UpsertConfigs(universe) :
       UpsertFlag(key, config)
  \/ \E key \in Keys(universe) : DeleteFlag(key)
  \/ \E key \in Keys(universe) : CallGetFlag(key)
  \/ CallGetAllFlags
  \/ \E key \in Keys(universe), context \in Contexts(universe) :
       CallEvaluate(key, context)
  \/ \E key \in Keys(universe), context \in SugarContexts(universe) :
       CallIsEnabled(key, context)
  \/ \E key \in Keys(universe), context \in SugarContexts(universe) :
       CallGetVariant(key, context)
  \/ \E input \in HashInputs(universe) : CallHashStringToInt(input[1], input[2])

Init == InitIn("store")
Spec == Init /\ [][Next]_vars

InitShape == InitIn("shape")
SpecShape == InitShape /\ [][Next]_vars

InitRollout == InitIn("rollout")
SpecRollout == InitRollout /\ [][Next]_vars

InitIdentifier == InitIn("identifier")
SpecIdentifier == InitIdentifier /\ [][Next]_vars

InitConditions == InitIn("conditions")
SpecConditions == InitConditions /\ [][Next]_vars

InitVariants == InitIn("variants")
SpecVariants == InitVariants /\ [][Next]_vars

-----------------------------------------------------------------------------
(* Properties *)

EvaluationOps == {"evaluate", "isEnabled", "getVariant"}

\* What the store holds under the key of the last call.  Every call is recorded
\* in call, and the reading calls leave the store alone, so after a reading call
\* this is also what the store held when the call was made.
Stored == GetFlag(flags, proto, call.key)

\* The condition semantics of the documentation, one condition at a time
RefConditionPasses(cond, context) ==
  LET actual == ContextGet(context, cond.attribute)
  IN \/ cond.operator = "eq" /\ StrictEquals(actual, cond.value)
     \/ cond.operator = "neq" /\ ~StrictEquals(actual, cond.value)
     \/ cond.operator = "in" /\ cond.value.t = "array"
          /\ Includes(cond.value.v, actual)
     \/ cond.operator = "not_in"
          /\ (cond.value.t # "array" \/ ~Includes(cond.value.v, actual))

\* The conditions of a definition are absent, or all pass
ConditionsAbsentOrPass(flag, context) ==
  \/ flag.conditions = Undefined
  \/ /\ flag.conditions.t = "array"
     /\ \A i \in 1..Len(flag.conditions.v) :
          /\ flag.conditions.v[i].t = "condition"
          /\ RefConditionPasses(flag.conditions.v[i], context)

\* The attribute a definition buckets by: rollout.attribute, else the client's
\* default attribute
BucketingAttribute(flag) ==
  IF /\ flag.rollout.t = "rollout"
     /\ flag.rollout.attribute.t = "string"
     /\ flag.rollout.attribute.v # ""
  THEN flag.rollout.attribute.v
  ELSE "userId"

\* The attributes the conditions of a definition name
ConditionAttributes(flag) ==
  IF flag.conditions.t = "array"
  THEN {flag.conditions.v[i].attribute : i \in 1..Len(flag.conditions.v)}
  ELSE {}

\* Two contexts give the definition the same identifier and the same values for
\* the attributes its conditions name
SameSubject(flag, c1, c2) ==
  /\ Identifier(c1, BucketingAttribute(flag)) = Identifier(c2, BucketingAttribute(flag))
  /\ \A a \in ConditionAttributes(flag) : ContextGet(c1, a) = ContextGet(c2, a)

\* C1: two evaluate calls on the same key and stored definition whose contexts
\* give the same string-coerced bucketing attribute and the same values for
\* the condition attributes return the same enabled value and the same variant,
\* whatever else the contexts hold and whatever calls came in between.
IdentifierDecides ==
  (/\ firstEval # None
   /\ call.op = "evaluate"
   /\ call.key = firstEval.key
   /\ Stored = firstEval.result.flag
   /\ SameSubject(Stored, firstEval.context, call.arg))
  => /\ call.result.threw = firstEval.result.threw
     /\ call.result.enabled = firstEval.result.enabled
     /\ call.result.variant = firstEval.result.variant

\* A second evaluate of the same definition for the same subject, from a
\* context that differs in the type of the identifier and in another attribute,
\* has returned the variant of the first
IdentifierDecidesWitness ==
  /\ firstEval # None
  /\ call.op = "evaluate"
  /\ call.key = firstEval.key
  /\ Stored = firstEval.result.flag
  /\ SameSubject(Stored, firstEval.context, call.arg)
  /\ ContextGet(firstEval.context, BucketingAttribute(Stored))
       # ContextGet(call.arg, BucketingAttribute(Stored))
  /\ firstEval.context.country # call.arg.country
  /\ flags["b"] = Absent
  /\ call.result.enabled
  /\ call.result.variant # Null

\* C2: evaluate of a key whose stored definition has enabled = false returns
\* enabled = false and no variant, for every context and whatever the
\* conditions, rollout and variants of the definition are (malformed ones, which
\* would throw if read, included).
DisabledDominance ==
  (call.op = "evaluate" /\ Stored.t = "flag" /\ ~Stored.enabled)
  => /\ ~call.result.threw
     /\ ~call.result.enabled
     /\ call.result.variant = Null

\* evaluate has returned for a disabled definition whose conditions hold a null
\* entry and which has a rollout and weighted variants
DisabledDominanceWitness ==
  /\ call.op = "evaluate"
  /\ Stored.t = "flag"
  /\ ~Stored.enabled
  /\ Stored.conditions = Arr(<<Null>>)
  /\ Stored.rollout = Rollout(Num(50), Str("orgId"))
  /\ Stored.variants = TwoVariants
  /\ ~call.result.threw

\* Two definitions that differ only in rollout.percentage
DiffersOnlyInPercentage(f, g) ==
  /\ f.t = "flag" /\ g.t = "flag"
  /\ f.rollout.t = "rollout" /\ g.rollout.t = "rollout"
  /\ f.rollout.percentage.t = "number" /\ g.rollout.percentage.t = "number"
  /\ f.rollout.attribute = g.rollout.attribute
  /\ f.enabled = g.enabled
  /\ f.conditions = g.conditions
  /\ f.variants = g.variants

\* C3: for the same key and subject and two definitions that differ only in
\* rollout.percentage, P1 <= P2, a subject enabled at P1 is enabled at P2.
MonotonicRollout ==
  (/\ firstEval # None
   /\ call.op = "evaluate"
   /\ call.key = firstEval.key
   /\ DiffersOnlyInPercentage(firstEval.result.flag, Stored)
   /\ firstEval.result.flag.rollout.percentage.v <= Stored.rollout.percentage.v
   /\ SameSubject(Stored, firstEval.context, call.arg)
   /\ firstEval.result.enabled)
  => call.result.enabled

\* A subject enabled at one partial percentage has been evaluated again, and is
\* enabled, at a higher partial percentage
MonotonicRolloutWitness ==
  /\ firstEval # None
  /\ call.op = "evaluate"
  /\ call.key = firstEval.key
  /\ DiffersOnlyInPercentage(firstEval.result.flag, Stored)
  /\ firstEval.result.flag.rollout.percentage.v > 1
  /\ firstEval.result.flag.rollout.percentage.v < Stored.rollout.percentage.v
  /\ Stored.rollout.percentage.v < 100
  /\ SameSubject(Stored, firstEval.context, call.arg)
  /\ firstEval.result.enabled
  /\ call.result.enabled

\* C4: for an enabled definition whose conditions are absent or pass, a rollout
\* percentage at or below 0 (clamped to 0) disables the flag for every context,
\* and an absent rollout or a percentage at or above 100 (clamped to 100)
\* enables it for every context.
RolloutBoundaries ==
  (/\ call.op = "evaluate"
   /\ Stored.t = "flag"
   /\ Stored.enabled
   /\ ConditionsAbsentOrPass(Stored, call.arg))
  => /\ (/\ Stored.rollout.t = "rollout"
         /\ Stored.rollout.percentage.t = "number"
         /\ Stored.rollout.percentage.v <= 0) => ~call.result.enabled
     /\ (\/ Stored.rollout = Undefined
         \/ /\ Stored.rollout.t = "rollout"
            /\ Stored.rollout.percentage.t = "number"
            /\ Stored.rollout.percentage.v >= 100) => call.result.enabled

\* evaluate has enabled a flag whose percentage is above 100
RolloutBoundariesWitness ==
  /\ call.op = "evaluate"
  /\ Stored.t = "flag"
  /\ Stored.rollout.t = "rollout"
  /\ Stored.rollout.percentage = Num(101)
  /\ call.result.enabled

\* C5: _evaluateConditions returns the conjunction of the documented
\* per-condition semantics (true for the empty list), and an enabled
\* definition with a non-empty condition list evaluates to enabled only if
\* every condition passes.
ConditionsAreConjunction ==
  (/\ call.op = "evaluate"
   /\ Stored.t = "flag"
   /\ Stored.enabled
   /\ Stored.conditions.t = "array"
   /\ \A i \in 1..Len(Stored.conditions.v) : Stored.conditions.v[i].t = "condition")
  => LET conditions == Stored.conditions.v
         all == \A i \in 1..Len(conditions) :
                  RefConditionPasses(conditions[i], call.arg)
     IN /\ EvaluateConditions(conditions, call.arg) = Returned(all)
        /\ (Len(conditions) > 0 /\ call.result.enabled) => all

\* evaluate has enabled a flag with two conditions, one a not_in whose value is
\* not a sequence
ConditionsAreConjunctionWitness ==
  /\ call.op = "evaluate"
  /\ Stored.t = "flag"
  /\ Stored.enabled
  /\ Stored.conditions.t = "array"
  /\ Len(Stored.conditions.v) = 2
  /\ Stored.conditions.v[1].operator = "not_in"
  /\ Stored.conditions.v[1].value = Str("pro")
  /\ Stored.conditions.v[2].operator = "in"
  /\ call.result.enabled

\* The weight a variant counts with: a negative or non-numeric weight as 0
RefWeight(entry) ==
  IF entry.cfg.weight.t = "number" /\ entry.cfg.weight.v > 0
  THEN entry.cfg.weight.v
  ELSE 0

\* The cumulative weight of the first i entries
RECURSIVE RefCumulative(_, _)
RefCumulative(entries, i) ==
  IF i = 0 THEN 0 ELSE RefCumulative(entries, i - 1) + RefWeight(entries[i])

\* The variant the cumulative walk over entries gives the subject of the last
\* call: none when the total weight is not positive, else the first entry whose
\* cumulative weight is above the bucket
RefVariant(entries) ==
  LET total == RefCumulative(entries, Len(entries))
      bucket == HashStringToInt(
                  CharCodes(seed) \o CharCodes(":variant:") \o CharCodes(call.key)
                    \o CharCodes(":") \o Identifier(call.arg, BucketingAttribute(Stored)),
                  total).value.v
  IN IF total <= 0 THEN Null
     ELSE Str(entries[CHOOSE i \in 1..Len(entries) :
                        /\ RefCumulative(entries, i) > bucket
                        /\ \A j \in 1..(i - 1) : RefCumulative(entries, j) <= bucket].name)

\* The last call is an evaluate that enabled a definition with a variants mapping
EnabledWithVariants ==
  /\ call.op = "evaluate"
  /\ Stored.t = "flag"
  /\ Stored.variants.t = "variants"
  /\ call.result.enabled

\* C6: the variant of an enabled flag is absent iff the total weight is not
\* positive (or there are no variants), and is otherwise the first variant in
\* declaration order whose cumulative weight is above the bucket.
VariantIsFirstInDeclarationOrder ==
  EnabledWithVariants => call.result.variant = RefVariant(Stored.variants.v)

\* What holds instead: the walk is over Object.entries order
VariantIsFirstInEntriesOrder ==
  EnabledWithVariants => call.result.variant = RefVariant(ObjectEntries(Stored.variants.v))

\* C7: evaluate, isEnabled and getVariant return for every stored definition,
\* malformed ones included; they never throw.
EvaluateNeverThrows ==
  call.op \in EvaluationOps => ~call.result.threw

\* C8: for a key that has no definition (never seeded or upserted, or deleted
\* since), evaluate returns enabled = false, no variant and no flag field,
\* isEnabled false and getVariant nothing; the flag field is present exactly
\* when the key has a definition.
AbsentKeyHasNoFlag ==
  /\ (call.op = "evaluate" /\ defined[call.key] = Absent)
       => /\ ~call.result.threw
          /\ ~call.result.enabled
          /\ call.result.variant = Null
          /\ ~call.result.hasFlag
  /\ (call.op = "isEnabled" /\ defined[call.key] = Absent)
       => call.result = Returned(FALSE)
  /\ (call.op = "getVariant" /\ defined[call.key] = Absent)
       => call.result = Returned(Null)
  /\ (call.op = "evaluate" /\ ~call.result.threw)
       => (call.result.hasFlag <=> defined[call.key] # Absent)

\* C9: getFlag(k) returns the definition of the most recent upsertFlag(k) (or
\* the seeded one) when no deleteFlag(k) came after it, and nothing otherwise.
GetFlagIsLastWrite ==
  call.op = "getFlag"
  => call.result = IF defined[call.key] = Absent THEN Undefined ELSE defined[call.key]

\* C10: hashStringToInt fails for max <= 0, and returns an integer in [0, max)
\* for a positive max.
HashRejectsNonPositiveMax ==
  call.op = "hashStringToInt"
  => IF call.arg[2] <= 0 THEN call.result.threw
     ELSE /\ ~call.result.threw
          /\ call.result.value.t = "number"
          /\ call.result.value.v \in 0..(call.arg[2] - 1)

\* What holds instead: no error for any max; NaN for 0, and for the others an
\* integer below the absolute value of max
HashNeverThrows ==
  call.op = "hashStringToInt"
  => /\ ~call.result.threw
     /\ IF call.arg[2] = 0 THEN call.result.value = NaN
        ELSE /\ call.result.value.t = "number"
             /\ call.result.value.v >= 0
             /\ call.result.value.v < (IF call.arg[2] < 0 THEN -call.arg[2] ELSE call.arg[2])

=============================================================================
